---- MODULE Spec2Model ----
(***************************************************************************)
(* Model of src/server.js: the Express relay that forwards chat,           *)
(* text-to-speech and image requests to OpenAI, ElevenLabs and Gemini.     *)
(*                                                                         *)
(* One request is followed from its arrival to the end of its response.    *)
(* The handlers share no state (server.js keeps none between requests), so *)
(* one request at a time shows everything a handler can do.  Every await   *)
(* in a handler is a step boundary: the action before it issues the        *)
(* upstream call, the action after it receives whatever the provider       *)
(* answers, drawn from the reply sets below.                               *)
(*                                                                         *)
(* JavaScript strings are sequences of one-character strings.  A value     *)
(* that is undefined (or null) is the sequence Undefined, a value that is  *)
(* not a string is NotAString; neither is a sequence of characters.        *)
(***************************************************************************)
EXTENDS Naturals, Sequences, FiniteSets, TLC

VARIABLES env, pc, endpoint, req, prompt, finalPrompt, moderationResult,
          moderationResponse, calls, res, log, upstream, contents,
          systemInstruction

vars == <<env, pc, endpoint, req, prompt, finalPrompt, moderationResult,
          moderationResponse, calls, res, log, upstream, contents,
          systemInstruction>>

-----------------------------------------------------------------------------
(* Bounds of the model. *)

MaxTurns == 3

MaxParts == 2

MaxChunks == 2

-----------------------------------------------------------------------------
(* JavaScript values. *)

Undefined == <<"undefined">>

NotAString == <<"non-string">>

Whitespace == {" ", "\n"}

IsString(v) == v # Undefined /\ v # NotAString

\* JavaScript truthiness of a string-or-undefined value: v || other, !v
Truthy(v) == v # Undefined /\ v # <<>>

\* OrElse as it would be with ?? in place of ||: only undefined falls back.
OrElseNullish(v, other) == IF v # Undefined THEN v ELSE other

OrElse(v, other) == IF Truthy(v) THEN v ELSE other

RECURSIVE TrimStart(_)
TrimStart(s) ==
    IF s # <<>> /\ Head(s) \in Whitespace THEN TrimStart(Tail(s)) ELSE s

RECURSIVE TrimEnd(_)
TrimEnd(s) ==
    IF s # <<>> /\ s[Len(s)] \in Whitespace
    THEN TrimEnd(SubSeq(s, 1, Len(s) - 1))
    ELSE s

\* Trim as it would be were the text taken as it came.
NoTrim(s) == s

\* String.prototype.trim
Trim(s) == TrimEnd(TrimStart(s))

\* s contains sub (String.prototype.includes)
Includes(s, sub) ==
    \E i \in 1..(Len(s) + 1) :
        /\ i + Len(sub) - 1 <= Len(s)
        /\ SubSeq(s, i, i + Len(sub) - 1) = sub

RECURSIVE Join(_)
\* Array.prototype.join('') of a sequence of strings
Join(ss) == IF ss = <<>> THEN <<>> ELSE Head(ss) \o Join(Tail(ss))

SeqsUpTo(S, n) == UNION {[1..k -> S] : k \in 0..n}

-----------------------------------------------------------------------------
(* The process environment: which credentials are set.  server.js reads    *)
(* process.env inside each handler and only tests the keys for presence.   *)

Environments ==
    [OPENAI_API_KEY : BOOLEAN, ELEVENLABS_API_KEY : BOOLEAN,
     GEMINI_API_KEY : BOOLEAN]

\* Missing as it would be with one credential tested in every handler.
MissingWrongKey(key) == ~env["OPENAI_API_KEY"]

\* !KEY on a credential read from process.env
Missing(key) == ~env[key]

\* The credential each endpoint puts into its upstream request.
RequiredKey(path) ==
    CASE path = "/openai/chat" -> "OPENAI_API_KEY"
      [] path = "/elevenlabs-tts" -> "ELEVENLABS_API_KEY"
      [] path = "/gemini/image" -> "GEMINI_API_KEY"
      [] path = "/gemini/chat" -> "GEMINI_API_KEY"

-----------------------------------------------------------------------------
(* The Express response object. *)

NewResponse ==
    [statusCode |-> 200, headersSent |-> FALSE, contentType |-> "",
     body |-> <<>>, ended |-> FALSE, endCalls |-> 0]

\* res.setHeader('Content-Type', t): recorded, nothing is sent yet
SetContentType(r, t) == [r EXCEPT !.contentType = t]

\* res.status(code)
Status(r, code) == [r EXCEPT !.statusCode = code]

\* res.write(chunk): the first write commits the headers
Write(r, chunk) ==
    IF r.ended THEN r
    ELSE [r EXCEPT !.headersSent = TRUE, !.body = Append(@, chunk)]

\* res.end()
End(r) ==
    [r EXCEPT !.headersSent = TRUE, !.ended = TRUE, !.endCalls = @ + 1]

\* res.end(data)
EndWith(r, data) == End(Write(r, data))

\* res.json(payload)
Json(r, payload) == EndWith(SetContentType(r, "application/json"), payload)

\* res.send(text)
Send(r, text) == EndWith(SetContentType(r, "text/html"), text)

-----------------------------------------------------------------------------
(* Upstream calls.  calls is the list of requests this server has sent to  *)
(* the providers, in order.                                                *)

Call(provider, api, payload) ==
    [provider |-> provider, api |-> api, payload |-> payload]

NoReply == [kind |-> "none", status |-> 0, data |-> ""]

\* What axios can answer when the call fails: the provider answered with a
\* non-2xx status (error.response is set; its body may be empty), or there
\* was no answer at all (error.response is undefined).
ErrorReplies ==
    [kind : {"error_response"}, status : {400, 429, 503},
     data : {"", "upstream error body"}]
    \cup {[kind |-> "no_response", status |-> 0, data |-> ""]}

\* error.message of an axios error
ErrorMessage(reply) ==
    IF reply.kind = "no_response" THEN "connect ECONNREFUSED"
    ELSE "Request failed with status code"

\* error.response?.status || 500
ErrorStatus(reply) ==
    IF reply.kind = "error_response" THEN reply.status ELSE 500

\* error.response?.data || error.message
ErrorDetails(reply) ==
    IF reply.kind = "error_response" /\ reply.data # ""
    THEN reply.data
    ELSE ErrorMessage(reply)

-----------------------------------------------------------------------------
(* Gemini generateContent responses (success bodies), which axios hands    *)
(* over as parsed JSON.                                                    *)
(* data = { candidates?: [ { content?: { parts: [part, ...] } }, ... ] }   *)
(* part = { text } or { inlineData: { data, mimeType? } }                  *)

NoInlineData == [present |-> FALSE, data |-> "", mimeType |-> ""]

TextPart(t) == [text |-> t, inlineData |-> NoInlineData]

InlinePart(d, m) ==
    [text |-> Undefined,
     inlineData |-> [present |-> TRUE, data |-> d, mimeType |-> m]]

ResponseParts ==
    {TextPart(<<"h", "i">>), TextPart(<<"!">>),
     InlinePart("", "image/png"), InlinePart("iVBOR", ""),
     InlinePart("/9j/4", "image/jpeg")}

NoContent == [present |-> FALSE, parts |-> <<>>]

Candidates ==
    {[content |-> NoContent]}
    \cup {[content |-> [present |-> TRUE, parts |-> ps]] :
            ps \in SeqsUpTo(ResponseParts, MaxParts)}

ImageCandidate ==
    [content |-> [present |-> TRUE,
                  parts |-> <<InlinePart("R0lGO", "image/gif")>>]]

GeminiData ==
    {[hasCandidates |-> FALSE, candidates |-> <<>>],
     [hasCandidates |-> TRUE, candidates |-> <<>>]}
    \cup {[hasCandidates |-> TRUE, candidates |-> <<c>>] : c \in Candidates}
    \cup {[hasCandidates |-> TRUE, candidates |-> <<c, ImageCandidate>>] :
            c \in Candidates}

GeminiReplies ==
    {[kind |-> "ok", status |-> 200, data |-> d, parsed |-> TRUE] :
        d \in GeminiData}
    \cup ErrorReplies

\* geminiResponse.data?.candidates || []  then  candidates[0]?.content?.parts || []
FirstCandidateParts(data) ==
    IF data.candidates = <<>> THEN <<>>
    ELSE data.candidates[1].content.parts

\* HasInlineImage as it would be without the test of inlineData.data.
HasInlineData(part) == part.inlineData.present

\* part.inlineData && part.inlineData.data
HasInlineImage(part) == part.inlineData.present /\ part.inlineData.data # ""

\* responseParts.find(...): the index of the first match, 0 when there is none
FindInlinePart(parts) ==
    IF \E k \in 1..Len(parts) : HasInlineImage(parts[k])
    THEN CHOOSE k \in 1..Len(parts) :
            /\ HasInlineImage(parts[k])
            /\ \A j \in 1..(k - 1) : ~HasInlineImage(parts[j])
    ELSE 0

-----------------------------------------------------------------------------
(* The safety pre-filter of the image endpoint.                            *)

\* The fallback refusal of the image handler: "whoa, let's keep it PG."
FallbackMessage ==
    <<"w", "h", "o", "a", ",", " ", "l", "e", "t", "'", "s", " ", "k", "e",
      "e", "p", " ", "i", "t", " ", "P", "G", ".">>

NoStatus == "<undefined>"

NoModerationResult ==
    [status |-> NoStatus, optimized_prompt |-> Undefined,
     response |-> Undefined]

\* The objects the moderation model's text can parse to.
StatusValues == {"safe", "unsafe", "maybe", "", NoStatus}

OptimizedPromptValues ==
    {Undefined, <<>>, <<" ">>, <<"x">>, <<"c", "a", "t">>}

ResponseValues ==
    {Undefined, <<>>, <<"n", "o", "p", "e">>, <<"x">>,
     <<"n", "o", " ", "x", "y", "!">>}

ModerationObjects ==
    [status : StatusValues, optimized_prompt : OptimizedPromptValues,
     response : ResponseValues]

\* What the moderation call can come back with: an axios failure, or a 2xx
\* answer whose choices[0].message.content is missing or empty, is no JSON,
\* is JSON that is no object (null, a number), or is a JSON object.
ModerationReplies ==
    {[kind |-> k, content |-> "", parsed |-> NoModerationResult] :
        k \in {"error_response", "no_response"}}
    \cup {[kind |-> "ok", content |-> c, parsed |-> NoModerationResult] :
            c \in {"missing", "not_json", "json_scalar"}}
    \cup {[kind |-> "ok", content |-> "json_object", parsed |-> o] :
            o \in ModerationObjects}

\* evaluateAndOptimizeImagePrompt as it would be without the check of the
\* required fields.
evaluateWithoutFieldCheck(reply) ==
    IF reply.kind # "ok"
    THEN [threw |-> "axios error", parsed |-> NoModerationResult]
    ELSE IF reply.content = "missing"
    THEN [threw |-> "Invalid moderation response",
          parsed |-> NoModerationResult]
    ELSE IF reply.content = "not_json"
    THEN [threw |-> "Failed to parse moderation response JSON",
          parsed |-> NoModerationResult]
    ELSE [threw |-> "", parsed |-> reply.parsed]

\* evaluateAndOptimizeImagePrompt after its await: the error it throws
\* ("" when it returns) and the object it returns.
evaluateAndOptimizeImagePrompt(reply) ==
    IF reply.kind # "ok"
    THEN [threw |-> "axios error", parsed |-> NoModerationResult]
    ELSE IF reply.content = "missing"
    THEN [threw |-> "Invalid moderation response",
          parsed |-> NoModerationResult]
    ELSE IF reply.content = "not_json"
    THEN [threw |-> "Failed to parse moderation response JSON",
          parsed |-> NoModerationResult]
    ELSE IF reply.content = "json_scalar"
            \/ reply.parsed.status \in {"", NoStatus}
    THEN [threw |-> "Moderation response missing required fields",
          parsed |-> NoModerationResult]
    ELSE [threw |-> "", parsed |-> reply.parsed]

-----------------------------------------------------------------------------
(* POST /gemini/image *)

NoRequest == [none |-> TRUE]

PromptValues ==
    {Undefined, NotAString, <<>>, <<" ">>, <<"x">>,
     <<" ", "x", "y", "\n">>, <<"x", " ", "y">>}

ReferenceImages ==
    {[present |-> FALSE, data |-> "", mimeType |-> ""],
     [present |-> TRUE, data |-> "", mimeType |-> "image/jpeg"],
     [present |-> TRUE, data |-> "UklGR", mimeType |-> ""]}

ImageBodies == [prompt : PromptValues, referenceImage : ReferenceImages]

\* The generateContent payload of the image handler: the reference image,
\* when one with data was sent, then the text prompt.
ImagePayload(text, referenceImage) ==
    LET reference ==
            IF referenceImage.present /\ referenceImage.data # ""
            THEN <<InlinePart(referenceImage.data,
                              IF referenceImage.mimeType # ""
                              THEN referenceImage.mimeType
                              ELSE "image/png")>>
            ELSE <<>>
    IN  [contents |->
            <<[role |-> "user",
               parts |-> reference \o <<TextPart(text)>>]>>]

\* CallGeminiImage as it would be were the call sent a second time.
CallGeminiImageRetry(text) ==
    /\ calls' = calls \o
                    <<Call("gemini", "image",
                           ImagePayload(text, req'.referenceImage)),
                      Call("gemini", "image",
                           ImagePayload(text, req'.referenceImage))>>
    /\ pc' = "await_gemini_image"

\* The rest of the handler's try block up to its await of the Gemini call.
CallGeminiImage(text) ==
    /\ calls' = Append(calls,
                       Call("gemini", "image",
                            ImagePayload(text, req'.referenceImage)))
    /\ pc' = "await_gemini_image"

\* The handler from the arrival of the request to its first await (or to
\* its response, when it answers without calling anyone).
PostGeminiImage ==
    /\ pc = "idle"
    /\ \E body \in ImageBodies :
        /\ endpoint' = "/gemini/image"
        /\ req' = body
        /\ UNCHANGED <<env, moderationResult, moderationResponse, upstream,
                       contents, systemInstruction>>
        /\ IF Missing("GEMINI_API_KEY")
           THEN /\ log' = Append(log, "Error: GEMINI_API_KEY environment variable not set on the server.")
                /\ res' = Json(Status(res, 500),
                               [error |-> "Server configuration error: Gemini API key is missing."])
                /\ pc' = "done"
                /\ UNCHANGED <<prompt, finalPrompt, calls>>
           ELSE LET p == IF IsString(body.prompt) THEN Trim(body.prompt)
                         ELSE <<>>
                IN  /\ prompt' = p
                    /\ IF p = <<>>
                       THEN /\ res' = Json(Status(res, 400),
                                           [error |-> "No prompt provided for image generation."])
                            /\ pc' = "done"
                            /\ UNCHANGED <<finalPrompt, calls, log>>
                       ELSE /\ finalPrompt' = p
                            /\ res' = res
                            /\ IF ~Missing("OPENAI_API_KEY")
                               THEN /\ calls' = Append(calls,
                                            Call("openai", "moderation", p))
                                    /\ pc' = "await_moderation"
                                    /\ log' = log
                               ELSE /\ log' = Append(log, "OPENAI_API_KEY not set; skipping prompt moderation for image generation.")
                                    /\ CallGeminiImage(p)

\* ModerationReturns as it would be were only the status 'unsafe' rejected.
ModerationReturnsUnsafeOnly ==
    /\ pc = "await_moderation"
    /\ \E reply \in ModerationReplies :
        /\ moderationResponse' = reply
        /\ UNCHANGED <<env, endpoint, req, prompt, upstream, contents,
                       systemInstruction>>
        /\ LET result == evaluateAndOptimizeImagePrompt(reply)
           IN  IF result.threw # ""
               THEN /\ log' = Append(log, "Prompt moderation failed, proceeding with original prompt:")
                    /\ CallGeminiImage(finalPrompt)
                    /\ UNCHANGED <<moderationResult, finalPrompt, res>>
               ELSE /\ moderationResult' = result.parsed
                    /\ log' = log
                    /\ IF result.parsed.status = "unsafe"
                       THEN /\ res' = Json(Status(res, 400),
                                     [error |-> "unsafe_prompt",
                                      message |-> OrElse(result.parsed.response,
                                                         FallbackMessage)])
                            /\ pc' = "done"
                            /\ UNCHANGED <<finalPrompt, calls>>
                       ELSE /\ finalPrompt' =
                                   OrElse(result.parsed.optimized_prompt, prompt)
                            /\ CallGeminiImage(finalPrompt')
                            /\ res' = res

\* The moderation call comes back: the rest of
\* evaluateAndOptimizeImagePrompt, then the handler up to its next await.
ModerationReturns ==
    /\ pc = "await_moderation"
    /\ \E reply \in ModerationReplies :
        /\ moderationResponse' = reply
        /\ UNCHANGED <<env, endpoint, req, prompt, upstream, contents,
                       systemInstruction>>
        /\ LET result == evaluateAndOptimizeImagePrompt(reply)
           IN  IF result.threw # ""
               THEN /\ log' = Append(log, "Prompt moderation failed, proceeding with original prompt:")
                    /\ CallGeminiImage(finalPrompt)
                    /\ UNCHANGED <<moderationResult, finalPrompt, res>>
               ELSE /\ moderationResult' = result.parsed
                    /\ log' = log
                    /\ IF result.parsed.status # "safe"
                       THEN /\ res' = Json(Status(res, 400),
                                     [error |-> "unsafe_prompt",
                                      message |-> OrElse(result.parsed.response,
                                                         FallbackMessage)])
                            /\ pc' = "done"
                            /\ UNCHANGED <<finalPrompt, calls>>
                       ELSE /\ finalPrompt' =
                                   OrElse(result.parsed.optimized_prompt, prompt)
                            /\ CallGeminiImage(finalPrompt')
                            /\ res' = res

\* The Gemini image call comes back: the rest of the handler.
GeminiImageReturns ==
    /\ pc = "await_gemini_image"
    /\ \E reply \in GeminiReplies :
        /\ upstream' = reply
        /\ pc' = "done"
        /\ UNCHANGED <<env, endpoint, req, prompt, finalPrompt, moderationResult,
                       moderationResponse, calls, contents, systemInstruction>>
        /\ IF reply.kind = "ok"
           THEN LET responseParts == FirstCandidateParts(reply.data)
                    i == FindInlinePart(responseParts)
                IN  IF i = 0
                    THEN /\ log' = Append(log, "Gemini image response missing inline data:")
                         /\ res' = Json(Status(res, 502),
                                        [error |-> "Gemini did not return image data.",
                                         details |-> reply.data])
                    ELSE /\ log' = log
                         /\ res' = Json(res,
                                [image |-> responseParts[i].inlineData.data,
                                 mimeType |->
                                    IF responseParts[i].inlineData.mimeType # ""
                                    THEN responseParts[i].inlineData.mimeType
                                    ELSE "image/png"])
           ELSE /\ log' = Append(log, "Error proxying Gemini image request:")
                /\ res' = Json(Status(res, ErrorStatus(reply)),
                               [error |-> "Failed to communicate with Gemini image API",
                                details |-> ErrorDetails(reply)])

-----------------------------------------------------------------------------
(* POST /openai/chat *)

\* req.body.messages: missing, a value that is no array, or an array
NoMessages == [kind |-> "undefined", items |-> <<>>]

NotAnArray == [kind |-> "not_array", items |-> <<>>]

ArrayOf(items) == [kind |-> "array", items |-> items]

OpenAIChatBodies ==
    [model : {"", "gpt-4.1"},
     messages : {NoMessages, ArrayOf(<<>>),
                 ArrayOf(<<[role |-> "user", content |-> <<"a">>]>>)}]

\* The upstream answered 2xx and its body is a stream still to be read.
StreamReply == [kind |-> "ok", status |-> 200, data |-> "stream"]

OpenAIChatReplies == ErrorReplies \cup {StreamReply}

PostOpenAIChat ==
    /\ pc = "idle"
    /\ \E body \in OpenAIChatBodies :
        /\ endpoint' = "/openai/chat"
        /\ req' = body
        /\ UNCHANGED <<env, prompt, finalPrompt, moderationResult,
                       moderationResponse, upstream, contents, systemInstruction>>
        /\ IF Missing("OPENAI_API_KEY")
           THEN /\ log' = Append(log, "Error: OPENAI_API_KEY environment variable not set on the server.")
                /\ res' = Json(Status(res, 500),
                               [error |-> "Server configuration error: OpenAI API key is missing."])
                /\ pc' = "done"
                /\ calls' = calls
           ELSE IF body.messages.kind = "undefined"
           THEN /\ res' = Json(Status(res, 400),
                               [error |-> "No messages provided in the request body for OpenAI chat."])
                /\ pc' = "done"
                /\ UNCHANGED <<calls, log>>
           ELSE /\ calls' = Append(calls,
                        Call("openai", "chat",
                             [model |-> IF body.model # "" THEN body.model
                                        ELSE "gpt-5-mini",
                              messages |-> body.messages,
                              stream |-> TRUE]))
                /\ pc' = "await_openai_chat"
                /\ UNCHANGED <<res, log>>

\* The call is made with responseType 'stream': when the provider answers
\* with an error status, error.response.data is the stream object that would
\* deliver the provider's body, never the body itself, and it is truthy
\* whatever the body holds.
StreamObject == "[stream object]"

\* error.response?.data || error.message, for a call with responseType 'stream'
StreamErrorDetails(reply) ==
    IF reply.kind = "error_response" THEN StreamObject
    ELSE ErrorMessage(reply)

\* What res.json does with a payload that holds a stream object depends on
\* the libraries the server is run with:
\*   "serialized"    JSON.stringify walks the object's enumerable fields and
\*                   the result is sent;
\*   "error_handler" JSON.stringify throws (circular structure) inside the
\*                   catch block, the handler's promise rejects and the
\*                   framework's default error handler answers (Express 5);
\*   "unhandled"     JSON.stringify throws and nothing handles the rejection
\*                   (Express 4): the status is set, nothing is ever sent.
JsonOfStreamOutcomes == {"serialized", "error_handler", "unhandled"}

\* res.status(status).json(payload), outcome as above when the payload holds
\* a stream object
StatusJson(r, status, payload, outcome) ==
    IF payload.details # StreamObject \/ outcome = "serialized"
    THEN Json(Status(r, status), payload)
    ELSE IF outcome = "error_handler"
    THEN Send(Status(r, status),
              "TypeError: Converting circular structure to JSON")
    ELSE Status(r, status)

\* The OpenAI call comes back: the stream is piped to the client, or the
\* catch block answers.
OpenAIChatReturns ==
    /\ pc = "await_openai_chat"
    /\ \E reply \in OpenAIChatReplies, outcome \in JsonOfStreamOutcomes :
        /\ upstream' = reply
        /\ UNCHANGED <<env, endpoint, req, prompt, finalPrompt, moderationResult,
                       moderationResponse, calls, contents, systemInstruction>>
        /\ IF reply.kind = "ok"
           THEN /\ res' = SetContentType(res, "text/event-stream")
                /\ pc' = "streaming"
                /\ log' = log
           ELSE /\ log' = Append(log, "Error proxying OpenAI request:")
                /\ res' = IF ~res.headersSent
                          THEN StatusJson(res, ErrorStatus(reply),
                                    [error |-> "Failed to communicate with OpenAI API",
                                     details |-> StreamErrorDetails(reply)],
                                    outcome)
                          ELSE End(res)
                /\ pc' = IF res'.ended THEN "done" ELSE "rejected"

\* openaiResponse.data.pipe(res): one chunk of the upstream body arrives
StreamChunk ==
    /\ pc = "streaming"
    /\ Len(res.body) < MaxChunks
    /\ res' = Write(res, "chunk")
    /\ UNCHANGED <<env, pc, endpoint, req, prompt, finalPrompt,
                   moderationResult, moderationResponse, calls, log, upstream,
                   contents, systemInstruction>>

\* StreamEnd as it would be were the stream still listened to after its end.
StreamEndStillListening ==
    /\ pc = "streaming"
    /\ ~res.ended
    /\ res' = End(res)
    /\ log' = Append(log, "OpenAI stream to client ended successfully.")
    /\ UNCHANGED <<env, pc, endpoint, req, prompt, finalPrompt,
                   moderationResult, moderationResponse, calls, upstream,
                   contents, systemInstruction>>

\* the upstream body ends: pipe ends the response, the 'end' callback logs
StreamEnd ==
    /\ pc = "streaming"
    /\ res' = End(res)
    /\ log' = Append(log, "OpenAI stream to client ended successfully.")
    /\ pc' = "done"
    /\ UNCHANGED <<env, endpoint, req, prompt, finalPrompt, moderationResult,
                   moderationResponse, calls, upstream, contents,
                   systemInstruction>>

\* StreamError as it would be without the test of res.headersSent.
StreamErrorAlwaysStatus ==
    /\ pc = "streaming"
    /\ log' = Append(log, "Error during OpenAI stream to client:")
    /\ res' = Send(Status(res, 500), "Error streaming response from OpenAI.")
    /\ pc' = "done"
    /\ UNCHANGED <<env, endpoint, req, prompt, finalPrompt, moderationResult,
                   moderationResponse, calls, upstream, contents,
                   systemInstruction>>

\* the upstream body fails: the 'error' callback
StreamError ==
    /\ pc = "streaming"
    /\ log' = Append(log, "Error during OpenAI stream to client:")
    /\ res' = IF ~res.headersSent
              THEN Send(Status(res, 500),
                        "Error streaming response from OpenAI.")
              ELSE End(res)
    /\ pc' = "done"
    /\ UNCHANGED <<env, endpoint, req, prompt, finalPrompt, moderationResult,
                   moderationResponse, calls, upstream, contents,
                   systemInstruction>>

-----------------------------------------------------------------------------
(* POST /elevenlabs-tts *)

TtsBodies == [text : {Undefined, <<>>, <<"h", "i">>}]

\* The error bodies of ElevenLabs: JSON with a detail, JSON with a message,
\* JSON with neither, and bytes that are no JSON (an empty body is one).
TtsErrorBodies ==
    {"{\"detail\":\"quota\"}", "{\"message\":\"bad voice\"}", "{}",
     "<html>", ""}

TtsReplies ==
    {[kind |-> "ok", status |-> 200, data |-> "audio bytes"]}
    \cup [kind : {"error_response"}, status : {401, 429},
          data : TtsErrorBodies]
    \cup {[kind |-> "no_response", status |-> 0, data |-> ""]}

\* JSON.parse(error.response.data.toString('utf8')), then
\* errorDetails.detail || errorDetails.message || 'Unknown error'
TtsErrorDetails(data) ==
    IF data = "{\"detail\":\"quota\"}" THEN [parsed |-> TRUE, details |-> "quota"]
    ELSE IF data = "{\"message\":\"bad voice\"}"
    THEN [parsed |-> TRUE, details |-> "bad voice"]
    ELSE IF data = "{}" THEN [parsed |-> TRUE, details |-> "Unknown error"]
    ELSE [parsed |-> FALSE, details |-> ""]

PostElevenLabsTts ==
    /\ pc = "idle"
    /\ \E body \in TtsBodies :
        /\ endpoint' = "/elevenlabs-tts"
        /\ req' = body
        /\ UNCHANGED <<env, prompt, finalPrompt, moderationResult,
                       moderationResponse, upstream, contents, systemInstruction>>
        /\ IF Missing("ELEVENLABS_API_KEY")
           THEN /\ log' = Append(log, "Error: ELEVENLABS_API_KEY environment variable not set on the server.")
                /\ res' = Json(Status(res, 500),
                               [error |-> "Server configuration error: ElevenLabs API key is missing."])
                /\ pc' = "done"
                /\ calls' = calls
           ELSE IF ~Truthy(body.text)
           THEN /\ res' = Json(Status(res, 400),
                               [error |-> "No text provided for ElevenLabs TTS."])
                /\ pc' = "done"
                /\ UNCHANGED <<calls, log>>
           ELSE /\ calls' = Append(calls,
                        Call("elevenlabs", "text-to-speech",
                             [text |-> body.text,
                              model_id |-> "eleven_multilingual_v2"]))
                /\ pc' = "await_elevenlabs"
                /\ UNCHANGED <<res, log>>

\* The ElevenLabs call comes back: the audio is sent, or the catch block
\* answers.
ElevenLabsReturns ==
    /\ pc = "await_elevenlabs"
    /\ \E reply \in TtsReplies :
        /\ upstream' = reply
        /\ pc' = "done"
        /\ UNCHANGED <<env, endpoint, req, prompt, finalPrompt, moderationResult,
                       moderationResponse, calls, contents, systemInstruction>>
        /\ IF reply.kind = "ok"
           THEN /\ res' = EndWith(SetContentType(res, "audio/mpeg"), reply.data)
                /\ log' = Append(log, "ElevenLabs audio response sent to client successfully.")
           ELSE /\ log' = Append(log, "Error proxying ElevenLabs TTS request:")
                /\ res' =
                    IF res.headersSent THEN End(res)
                    ELSE IF reply.kind = "error_response"
                    THEN IF TtsErrorDetails(reply.data).parsed
                         THEN Json(Status(res, reply.status),
                                   [error |-> "Failed to communicate with ElevenLabs API",
                                    details |-> TtsErrorDetails(reply.data).details])
                         ELSE Send(Status(res, reply.status), reply.data)
                    ELSE Json(Status(res, ErrorStatus(reply)),
                              [error |-> "Failed to communicate with ElevenLabs API",
                               details |-> ErrorMessage(reply)])

-----------------------------------------------------------------------------
(* formatMessagesForGemini *)

Roles == {"system", "user", "assistant", "model", "tool"}

\* msg.content: no string (missing, or an array of content parts), or text
TurnContents == {NotAString, <<>>, <<" ">>, <<"a">>, <<" ", "b">>}

Turns == [role : Roles, content : TurnContents]

TurnLists == SeqsUpTo(Turns, MaxTurns)

NoSystemInstruction == [present |-> FALSE, parts |-> <<>>]

\* GeminiRole as it would be were 'assistant' the only role mapped to 'model'.
GeminiRoleAssistantOnly(role) == IF role = "assistant" THEN "model" ELSE "user"

\* The role label of a turn that is no system turn
GeminiRole(role) == IF role \in {"assistant", "model"} THEN "model" ELSE "user"

\* FormatMessage as it would be without the system branch: a system turn
\* goes into the history like any other turn.
FormatMessageSystemAsTurn(acc, msg) ==
    IF ~IsString(msg.content) THEN acc
    ELSE LET text == Trim(msg.content)
         IN  IF text = <<>> THEN acc
             ELSE [acc EXCEPT !.contents =
                        Append(@, [role |-> GeminiRole(msg.role),
                                   parts |-> <<[text |-> text]>>])]

\* FormatMessage as it would be were a later system turn to replace the
\* instruction instead of being appended to it.
FormatMessageLastSystem(acc, msg) ==
    IF ~IsString(msg.content) THEN acc
    ELSE LET text == Trim(msg.content)
         IN  IF text = <<>> THEN acc
             ELSE IF msg.role = "system"
             THEN [acc EXCEPT !.systemInstruction =
                        [present |-> TRUE, parts |-> <<[text |-> text]>>]]
             ELSE [acc EXCEPT !.contents =
                        Append(@, [role |-> GeminiRole(msg.role),
                                   parts |-> <<[text |-> text]>>])]

\* One pass of the forEach callback over msg.
FormatMessage(acc, msg) ==
    IF ~IsString(msg.content) THEN acc
    ELSE LET text == Trim(msg.content)
         IN  IF text = <<>> THEN acc
             ELSE IF msg.role = "system"
             THEN [acc EXCEPT !.systemInstruction =
                        [present |-> TRUE,
                         parts |-> Append(@.parts, [text |-> text])]]
             ELSE [acc EXCEPT !.contents =
                        Append(@, [role |-> GeminiRole(msg.role),
                                   parts |-> <<[text |-> text]>>])]

RECURSIVE FormatMessages(_, _)
\* messages.forEach(...)
FormatMessages(acc, items) ==
    IF items = <<>> THEN acc
    ELSE FormatMessages(FormatMessage(acc, Head(items)), Tail(items))

formatMessagesForGemini(messages) ==
    IF messages.kind # "array"
    THEN [contents |-> <<>>, systemInstruction |-> NoSystemInstruction]
    ELSE FormatMessages([contents |-> <<>>,
                         systemInstruction |-> NoSystemInstruction],
                        messages.items)

-----------------------------------------------------------------------------
(* POST /gemini/chat *)

\* The turns the chat handler is driven with.
ChatTurns ==
    {[role |-> "system", content |-> <<"a">>],
     [role |-> "system", content |-> <<" ", "b">>],
     [role |-> "system", content |-> <<" ">>],
     [role |-> "user", content |-> <<"a">>],
     [role |-> "user", content |-> NotAString],
     [role |-> "assistant", content |-> <<" ", "b">>],
     [role |-> "tool", content |-> <<"a">>]}

GeminiChatBodies ==
    {[messages |-> NoMessages], [messages |-> NotAnArray]}
    \cup {[messages |-> ArrayOf(items)] : items \in SeqsUpTo(ChatTurns, MaxTurns)}

ChatParts == {TextPart(<<"h", "i">>), TextPart(<<"!">>), InlinePart("iVBOR", "")}

ChatData ==
    {[hasCandidates |-> FALSE, candidates |-> <<>>]}
    \cup {[hasCandidates |-> TRUE,
           candidates |-> <<[content |-> NoContent]>>]}
    \cup {[hasCandidates |-> TRUE,
           candidates |-> <<[content |-> [present |-> TRUE, parts |-> ps]]>>] :
            ps \in SeqsUpTo(ChatParts, MaxParts)}

GeminiChatReplies ==
    {[kind |-> "ok", status |-> 200, data |-> d, parsed |-> TRUE] :
        d \in ChatData}
    \cup ErrorReplies

\* part => typeof part.text === 'string' ? part.text : ''
PartText(part) == IF IsString(part.text) THEN part.text ELSE <<>>

\* ResponseText as it would be were only the first part read.
FirstPartText(parts) == IF parts = <<>> THEN <<>> ELSE PartText(parts[1])

\* parts.map(...).join('')
ResponseText(parts) == Join([k \in 1..Len(parts) |-> PartText(parts[k])])

\* data: ${JSON.stringify(payload)}\n\n
DataEvent(payload) == [event |-> "data: <json>", json |-> payload]

\* data: [DONE]\n\n
DoneEvent == [event |-> "data: [DONE]"]

ChatDelta(text) == [choices |-> <<[delta |-> [content |-> text]]>>]

PostGeminiChat ==
    /\ pc = "idle"
    /\ \E body \in GeminiChatBodies :
        /\ endpoint' = "/gemini/chat"
        /\ req' = body
        /\ UNCHANGED <<env, prompt, finalPrompt, moderationResult,
                       moderationResponse, upstream>>
        /\ IF Missing("GEMINI_API_KEY")
           THEN /\ log' = Append(log, "Error: GEMINI_API_KEY environment variable not set on the server.")
                /\ res' = Json(Status(res, 500),
                               [error |-> "Server configuration error: Gemini API key is missing."])
                /\ pc' = "done"
                /\ UNCHANGED <<calls, contents, systemInstruction>>
           ELSE IF body.messages.kind # "array" \/ body.messages.items = <<>>
           THEN /\ res' = Json(Status(res, 400),
                               [error |-> "No messages provided for Gemini chat."])
                /\ pc' = "done"
                /\ UNCHANGED <<calls, log, contents, systemInstruction>>
           ELSE LET formatted == formatMessagesForGemini(body.messages)
                IN  /\ contents' = formatted.contents
                    /\ systemInstruction' = formatted.systemInstruction
                    /\ log' = log
                    /\ IF formatted.contents = <<>>
                       THEN /\ res' = Json(Status(res, 400),
                                           [error |-> "No valid messages to send to Gemini."])
                            /\ pc' = "done"
                            /\ calls' = calls
                       ELSE /\ res' = SetContentType(res, "text/event-stream")
                            /\ calls' = Append(calls,
                                    Call("gemini", "chat",
                                         [contents |-> formatted.contents,
                                          systemInstruction |->
                                                formatted.systemInstruction]))
                            /\ pc' = "await_gemini_chat"

\* The Gemini chat call comes back: the synthesized stream, or the catch
\* block.
GeminiChatReturns ==
    /\ pc = "await_gemini_chat"
    /\ \E reply \in GeminiChatReplies :
        /\ upstream' = reply
        /\ pc' = "done"
        /\ UNCHANGED <<env, endpoint, req, prompt, finalPrompt, moderationResult,
                       moderationResponse, calls, contents, systemInstruction>>
        /\ IF reply.kind = "ok"
           THEN LET text == ResponseText(FirstCandidateParts(reply.data))
                IN  /\ res' = End(Write(Write(res, DataEvent(ChatDelta(text))),
                                        DoneEvent))
                    /\ log' = log
           ELSE LET failure ==
                        [error |-> "Failed to communicate with Gemini chat API",
                         details |-> ErrorDetails(reply)]
                IN  /\ log' = Append(log, "Error proxying Gemini chat request:")
                    /\ res' = IF ~res.headersSent
                              THEN Json(Status(res, ErrorStatus(reply)), failure)
                              ELSE End(Write(Write(res, DataEvent(failure)),
                                             DoneEvent))

-----------------------------------------------------------------------------

Init ==
    /\ env \in Environments
    /\ pc = "idle"
    /\ endpoint = ""
    /\ req = NoRequest
    /\ prompt = <<>>
    /\ finalPrompt = <<>>
    /\ moderationResult = NoModerationResult
    /\ moderationResponse = NoReply
    /\ calls = <<>>
    /\ res = NewResponse
    /\ log = <<>>
    /\ upstream = NoReply
    /\ contents = <<>>
    /\ systemInstruction = NoSystemInstruction

Next ==
    \/ PostOpenAIChat
    \/ OpenAIChatReturns
    \/ StreamChunk
    \/ StreamEnd
    \/ StreamError
    \/ PostElevenLabsTts
    \/ ElevenLabsReturns
    \/ PostGeminiImage
    \/ ModerationReturns
    \/ GeminiImageReturns
    \/ PostGeminiChat
    \/ GeminiChatReturns

Spec == Init /\ [][Next]_vars

\* Every awaited upstream call settles (it returns or fails), and a body
\* that is being piped ends or fails: the event loop then runs the rest of
\* the handler or the stream callback.  Each of these steps moves pc.
SpecLive ==
    /\ Init
    /\ [][Next]_vars
    /\ WF_pc(OpenAIChatReturns)
    /\ WF_pc(StreamEnd \/ StreamError)
    /\ WF_pc(ElevenLabsReturns)
    /\ WF_pc(ModerationReturns)
    /\ WF_pc(GeminiImageReturns)
    /\ WF_pc(GeminiChatReturns)

-----------------------------------------------------------------------------
(* The translator on its own: formatMessagesForGemini applied to every     *)
(* list of at most MaxTurns turns, as the chat handler applies it.         *)

InitTranslator ==
    /\ env \in {[OPENAI_API_KEY |-> FALSE, ELEVENLABS_API_KEY |-> FALSE,
                 GEMINI_API_KEY |-> TRUE]}
    /\ pc = "translate"
    /\ endpoint = "/gemini/chat"
    /\ req \in {[messages |-> m] :
                    m \in {NotAnArray} \cup {ArrayOf(t) : t \in TurnLists}}
    /\ prompt = <<>>
    /\ finalPrompt = <<>>
    /\ moderationResult = NoModerationResult
    /\ moderationResponse = NoReply
    /\ calls = <<>>
    /\ res = NewResponse
    /\ log = <<>>
    /\ upstream = NoReply
    /\ contents = <<>>
    /\ systemInstruction = NoSystemInstruction

\* const { contents, systemInstruction } = formatMessagesForGemini(messages)
Translate ==
    /\ pc = "translate"
    /\ contents' = formatMessagesForGemini(req.messages).contents
    /\ systemInstruction' = formatMessagesForGemini(req.messages).systemInstruction
    /\ pc' = "translated"
    /\ UNCHANGED <<env, endpoint, req, prompt, finalPrompt, moderationResult,
                   moderationResponse, calls, res, log, upstream>>

NextTranslator == Translate

SpecTranslator == InitTranslator /\ [][NextTranslator]_vars

-----------------------------------------------------------------------------
(* Properties of the handlers. *)

MissingKeyMessage(key) ==
    CASE key = "OPENAI_API_KEY" ->
            "Server configuration error: OpenAI API key is missing."
      [] key = "ELEVENLABS_API_KEY" ->
            "Server configuration error: ElevenLabs API key is missing."
      [] key = "GEMINI_API_KEY" ->
            "Server configuration error: Gemini API key is missing."

AllWhitespace(s) == \A i \in 1..Len(s) : s[i] \in Whitespace

\* A prompt that is no string, or is empty once trimmed
EmptyPrompt(v) == ~IsString(v) \/ AllWhitespace(v)

NoGeminiCall == \A i \in 1..Len(calls) : calls[i].provider # "gemini"

\* The text part of a generateContent call of the image handler
SentText(call) ==
    LET parts == call.payload.contents[1].parts
    IN  parts[Len(parts)].text

IsImageCall(call) == call.provider = "gemini" /\ call.api = "image"

\* The moderation model answered with an object whose status is s.
Verdict(s) ==
    /\ moderationResponse.kind = "ok"
    /\ moderationResponse.content = "json_object"
    /\ moderationResponse.parsed.status = s

\* The moderation call came back without a verdict: an upstream error, no
\* content, text that is no JSON object, or an object without a status.
NoVerdict ==
    /\ moderationResponse.kind # "none"
    /\ \/ moderationResponse.kind # "ok"
       \/ moderationResponse.content \in {"missing", "not_json", "json_scalar"}
       \/ moderationResponse.parsed.status \in {"", NoStatus}

\* C1: a request to an endpoint whose provider credential is absent is
\* answered 500 with the message naming that provider, and nothing is sent
\* upstream.
C1_MissingCredential ==
    (endpoint # "" /\ ~env[RequiredKey(endpoint)]) =>
        /\ pc = "done"
        /\ calls = <<>>
        /\ res.statusCode = 500
        /\ res.ended
        /\ res.body = <<[error |-> MissingKeyMessage(RequiredKey(endpoint))]>>

C1_Witness ==
    /\ endpoint = "/gemini/image"
    /\ ~env.GEMINI_API_KEY
    /\ env.OPENAI_API_KEY
    /\ req.prompt = <<"x">>
    /\ res.statusCode = 500

\* C2 as stated: every image request with an empty prompt is answered 400
\* and calls nobody.
C2_Original ==
    (endpoint = "/gemini/image" /\ EmptyPrompt(req.prompt)) =>
        /\ res.statusCode = 400
        /\ calls = <<>>

\* C2: an image request with an empty prompt calls nobody (neither the
\* moderation nor the generation); it is answered 400 when the Gemini
\* credential is set and 500 when it is not.
C2_EmptyPrompt ==
    (endpoint = "/gemini/image" /\ EmptyPrompt(req.prompt)) =>
        /\ pc = "done"
        /\ calls = <<>>
        /\ res.ended
        /\ res.statusCode = IF env.GEMINI_API_KEY THEN 400 ELSE 500
        /\ env.GEMINI_API_KEY =>
            res.body = <<[error |-> "No prompt provided for image generation."]>>

C2_Witness ==
    /\ endpoint = "/gemini/image"
    /\ env.GEMINI_API_KEY
    /\ env.OPENAI_API_KEY
    /\ req.prompt = <<" ">>
    /\ res.statusCode = 400
    /\ calls = <<>>

\* C3: on an unsafe verdict the request is answered 400 'unsafe_prompt'
\* with the model's refusal text, or the fixed fallback when there is none,
\* and Gemini is never called.
C3_UnsafeRejected ==
    (endpoint = "/gemini/image" /\ Verdict("unsafe")) =>
        /\ pc = "done"
        /\ NoGeminiCall
        /\ res.statusCode = 400
        /\ res.ended
        /\ res.body =
            <<[error |-> "unsafe_prompt",
               message |->
                    IF moderationResponse.parsed.response \in {Undefined, <<>>}
                    THEN FallbackMessage
                    ELSE moderationResponse.parsed.response]>>

C3_Witness ==
    /\ endpoint = "/gemini/image"
    /\ Verdict("unsafe")
    /\ moderationResponse.parsed.response = <<>>
    /\ res.statusCode = 400
    /\ res.body[1].message = FallbackMessage

\* C4: on a safe verdict the text sent to Gemini is the optimized prompt
\* when it is non-empty, and the trimmed original prompt otherwise.
C4_SafePrompt ==
    (endpoint = "/gemini/image" /\ Verdict("safe")) =>
        /\ Len(calls) = 2
        /\ IsImageCall(calls[2])
        /\ SentText(calls[2]) =
            IF moderationResponse.parsed.optimized_prompt \in {Undefined, <<>>}
            THEN Trim(req.prompt)
            ELSE moderationResponse.parsed.optimized_prompt

C4_Witness ==
    /\ endpoint = "/gemini/image"
    /\ Verdict("safe")
    /\ req.prompt = <<" ", "x", "y", "\n">>
    /\ moderationResponse.parsed.optimized_prompt = <<"c", "a", "t">>
    /\ Len(calls) = 2
    /\ SentText(calls[2]) = <<"c", "a", "t">>

\* The image request has gone on to Gemini and its answer, when there is
\* one, is the answer to the Gemini call.
AnsweredByGemini ==
    \/ pc = "await_gemini_image" /\ ~res.ended
    \/ /\ pc = "done"
       /\ upstream.kind # "none"
       /\ res.statusCode = 400 =>
            (upstream.kind = "error_response" /\ upstream.status = 400)

\* C5: with the Gemini credential set and a non-empty prompt, when there is
\* no verdict (no OpenAI credential: no moderation call at all; or the
\* moderation call failed) Gemini is called with the trimmed original
\* prompt and the request is not answered by the moderation step.
C5_FailOpen ==
    (endpoint = "/gemini/image" /\ env.GEMINI_API_KEY
        /\ ~EmptyPrompt(req.prompt)) =>
        /\ ~env.OPENAI_API_KEY =>
            /\ Len(calls) = 1
            /\ IsImageCall(calls[1])
            /\ SentText(calls[1]) = Trim(req.prompt)
            /\ AnsweredByGemini
        /\ (env.OPENAI_API_KEY /\ NoVerdict) =>
            /\ Len(calls) = 2
            /\ IsImageCall(calls[2])
            /\ SentText(calls[2]) = Trim(req.prompt)
            /\ AnsweredByGemini

C5_Witness ==
    /\ endpoint = "/gemini/image"
    /\ env.OPENAI_API_KEY
    /\ moderationResponse.kind = "ok"
    /\ moderationResponse.content = "json_object"
    /\ moderationResponse.parsed.status = NoStatus
    /\ req.prompt = <<" ", "x", "y", "\n">>
    /\ pc = "done"
    /\ res.statusCode = 200
    /\ SentText(calls[2]) = <<"x", "y">>

\* No part of the first candidate holds inline image data.
NoImagePart(data) ==
    \/ data.candidates = <<>>
    \/ \A k \in 1..Len(data.candidates[1].content.parts) :
        LET part == data.candidates[1].content.parts[k]
        IN  ~(part.inlineData.present /\ part.inlineData.data # "")

\* C6: when Gemini answers 2xx and no part of the first candidate holds
\* inline image data, the client gets 502 with the upstream body.
C6_NoImage502 ==
    (endpoint = "/gemini/image" /\ pc = "done" /\ upstream.kind = "ok"
        /\ NoImagePart(upstream.data)) =>
        /\ res.statusCode = 502
        /\ res.ended
        /\ res.body = <<[error |-> "Gemini did not return image data.",
                         details |-> upstream.data]>>

C6_Witness ==
    /\ endpoint = "/gemini/image"
    /\ pc = "done"
    /\ upstream.kind = "ok"
    /\ upstream.data.candidates =
        <<[content |-> [present |-> TRUE,
                        parts |-> <<InlinePart("", "image/png"),
                                    TextPart(<<"h", "i">>)>>]],
          ImageCandidate>>
    /\ res.statusCode = 502

\* C7 as stated: the refusal message sent for an unsafe verdict never
\* contains the prompt.
C7_NoPromptLeak ==
    (endpoint = "/gemini/image" /\ Verdict("unsafe") /\ pc = "done"
        /\ res.statusCode = 400) =>
        ~Includes(res.body[1].message, prompt)

RECURSIVE TextOfParts(_)
\* The text parts' texts, one after the other
TextOfParts(parts) ==
    IF parts = <<>> THEN <<>>
    ELSE (IF IsString(Head(parts).text) THEN Head(parts).text ELSE <<>>)
            \o TextOfParts(Tail(parts))

\* C8: when the Gemini chat call succeeds the response is exactly one data
\* event carrying the concatenated text as choices[0].delta.content, then
\* exactly one 'data: [DONE]' event, and the response is ended once.
C8_SyntheticStream ==
    (endpoint = "/gemini/chat" /\ pc = "done" /\ upstream.kind = "ok") =>
        /\ res.statusCode = 200
        /\ res.contentType = "text/event-stream"
        /\ res.ended
        /\ res.endCalls = 1
        /\ Len(res.body) = 2
        /\ res.body[1].event = "data: <json>"
        /\ res.body[1].json.choices[1].delta.content =
            TextOfParts(IF upstream.data.candidates = <<>> THEN <<>>
                        ELSE upstream.data.candidates[1].content.parts)
        /\ res.body[2] = [event |-> "data: [DONE]"]

C8_Witness ==
    /\ endpoint = "/gemini/chat"
    /\ pc = "done"
    /\ upstream.kind = "ok"
    /\ upstream.data.candidates # <<>>
    /\ upstream.data.candidates[1].content.parts =
        <<TextPart(<<"h", "i">>), TextPart(<<"!">>)>>
    /\ res.body[1].json.choices[1].delta.content = <<"h", "i", "!">>
    /\ res.body[2] = DoneEvent
    /\ res.ended

\* A non-empty array of turns that are all system turns
OnlySystemTurns(messages) ==
    /\ messages.kind = "array"
    /\ messages.items # <<>>
    /\ \A k \in 1..Len(messages.items) : messages.items[k].role = "system"

\* C9 as stated: a list of system turns only is answered 400 'no valid
\* messages', with zero translated turns and no upstream call.
C9_Original ==
    (endpoint = "/gemini/chat" /\ OnlySystemTurns(req.messages)) =>
        /\ calls = <<>>
        /\ contents = <<>>
        /\ res.statusCode = 400
        /\ res.body = <<[error |-> "No valid messages to send to Gemini."]>>

\* The translator gives no turns for any list of system turns only.
TranslatorDropsSystemOnly ==
    \A items \in TurnLists :
        (\A k \in 1..Len(items) : items[k].role = "system") =>
            formatMessagesForGemini(ArrayOf(items)).contents = <<>>

\* C9: for a list of system turns only the translator gives zero turns and
\* the chat handler calls nobody; with the Gemini credential set (and the
\* list not empty) it answers 400 'No valid messages to send to Gemini.',
\* without it 500.
C9_OnlySystem ==
    /\ TranslatorDropsSystemOnly
    /\ (endpoint = "/gemini/chat" /\ OnlySystemTurns(req.messages)) =>
        /\ pc = "done"
        /\ calls = <<>>
        /\ contents = <<>>
        /\ res.ended
        /\ res.statusCode = IF env.GEMINI_API_KEY THEN 400 ELSE 500
        /\ env.GEMINI_API_KEY =>
            res.body = <<[error |-> "No valid messages to send to Gemini."]>>

C9_Witness ==
    /\ endpoint = "/gemini/chat"
    /\ env.GEMINI_API_KEY
    /\ req.messages = ArrayOf(<<[role |-> "system", content |-> <<"a">>],
                                [role |-> "system", content |-> <<" ", "b">>]>>)
    /\ res.statusCode = 400
    /\ calls = <<>>

-----------------------------------------------------------------------------
(* Properties of the translator, under SpecTranslator. *)

IsSystem(msg) == msg.role = "system"

IsNotSystem(msg) == msg.role # "system"

\* A turn the translator keeps: its content is a string with more than
\* whitespace in it
HasText(msg) == IsString(msg.content) /\ ~AllWhitespace(msg.content)

IsSystemWithText(msg) == IsSystem(msg) /\ HasText(msg)

IsTurnWithText(msg) == IsNotSystem(msg) /\ HasText(msg)

ConsecutiveSystemTurns(items) ==
    \E k \in 1..(Len(items) - 1) : IsSystem(items[k]) /\ IsSystem(items[k + 1])

Translated == pc = "translated" /\ req.messages.kind = "array"

\* The texts of the instruction block's parts, joined
BlockText == Join([k \in 1..Len(systemInstruction.parts) |->
                        systemInstruction.parts[k].text])

\* The texts of the turn history, in order
HistoryTexts == [k \in 1..Len(contents) |-> contents[k].parts[1].text]

TrimmedContents(items) == [k \in 1..Len(items) |-> Trim(items[k].content)]

\* C10 as stated: consecutive system turns (with string contents) become
\* exactly one instruction block whose text is their contents joined in
\* order, and no system turn is in the history.
C10_Original ==
    LET items == req.messages.items
        system == SelectSeq(items, IsSystem)
    IN  (Translated /\ ConsecutiveSystemTurns(items)
            /\ \A k \in 1..Len(system) : IsString(system[k].content)) =>
            /\ systemInstruction.present
            /\ BlockText = Join([k \in 1..Len(system) |-> system[k].content])
            /\ HistoryTexts = TrimmedContents(SelectSeq(items, IsTurnWithText))

\* C10: for a list with consecutive system turns the instruction block's
\* parts are the trimmed contents, in order, of the system turns whose
\* content is a string that is not empty once trimmed; there is one block
\* when there is such a turn and none otherwise; the history holds the
\* other turns only.
C10_SystemMerged ==
    LET items == req.messages.items
    IN  (Translated /\ ConsecutiveSystemTurns(items)) =>
            /\ [k \in 1..Len(systemInstruction.parts) |->
                    systemInstruction.parts[k].text]
                = TrimmedContents(SelectSeq(items, IsSystemWithText))
            /\ systemInstruction.present
                <=> (\E k \in 1..Len(items) : IsSystemWithText(items[k]))
            /\ HistoryTexts = TrimmedContents(SelectSeq(items, IsTurnWithText))

C10_Witness ==
    /\ Translated
    /\ req.messages.items =
        <<[role |-> "system", content |-> <<"a">>],
          [role |-> "system", content |-> <<" ", "b">>],
          [role |-> "user", content |-> <<"a">>]>>
    /\ systemInstruction.present
    /\ systemInstruction.parts = <<[text |-> <<"a">>], [text |-> <<"b">>]>>
    /\ Len(contents) = 1

-----------------------------------------------------------------------------
(* Upstream failures *)

\* The handler of the request has run to its end (answered or not)
HandlerFinished == pc \in {"done", "rejected"}

\* The main upstream call of the request failed: the provider answered with
\* an error status, or there was no answer at all
ProviderAnswered == upstream.kind = "error_response"

NoUpstreamResponse == upstream.kind = "no_response"

\* The client response holds the given provider body as it was received:
\* as the whole body, or as the details of the JSON error
Carries(data) ==
    /\ Len(res.body) = 1
    /\ IF res.contentType = "application/json"
       THEN res.body[1].details = data
       ELSE res.body[1] = data

\* C11: for the chat, text-to-speech and image-generation calls, when the
\* call fails (no header has been committed at that point), the client
\* response has the provider's status and carries the provider's error body
\* verbatim when the provider answered, and has status 500 with the local
\* error text when there was no upstream response.
C11_UpstreamFailure ==
    (HandlerFinished
        /\ endpoint \in {"/openai/chat", "/elevenlabs-tts", "/gemini/image"}) =>
        /\ ProviderAnswered =>
            /\ res.ended
            /\ res.statusCode = upstream.status
            /\ upstream.data # "" => Carries(upstream.data)
        /\ NoUpstreamResponse =>
            /\ res.ended
            /\ res.statusCode = 500
            /\ Carries(ErrorMessage(upstream))

-----------------------------------------------------------------------------
(* Role labels of the translated history *)

IsUserOrAssistantWithText(msg) ==
    msg.role \in {"user", "assistant"} /\ HasText(msg)

\* The history that a list of kept turns gives, each turn labelled by label
HistoryOf(kept, label(_)) ==
    [k \in 1..Len(kept) |->
        [role |-> label(kept[k].role),
         parts |-> <<[text |-> Trim(kept[k].content)]>>]]

\* C12 as stated: 'assistant' turns are labelled 'model', and turns with an
\* unrecognized role or empty content are dropped, so the history is made of
\* the non-empty user and assistant turns only.
C12_Original ==
    LET label(role) == IF role = "assistant" THEN "model" ELSE "user"
    IN  Translated =>
            contents = HistoryOf(SelectSeq(req.messages.items,
                                           IsUserOrAssistantWithText), label)

\* C12: 'assistant' and 'model' turns are labelled 'model', every other turn
\* that is no system turn (role 'user' or an unrecognized role) is labelled
\* 'user', and a turn is dropped only when its content is no string or is
\* empty once trimmed: the history holds, in order, every non-system turn
\* that has text.
C12_RoleLabels ==
    LET label(role) == IF role \in {"assistant", "model"} THEN "model"
                       ELSE "user"
    IN  Translated =>
            contents = HistoryOf(SelectSeq(req.messages.items, IsTurnWithText),
                                 label)

C12_Witness ==
    /\ Translated
    /\ req.messages.items =
        <<[role |-> "assistant", content |-> <<"a">>],
          [role |-> "tool", content |-> <<" ", "b">>],
          [role |-> "model", content |-> <<" ">>]>>
    /\ contents = <<[role |-> "model", parts |-> <<[text |-> <<"a">>]>>],
                    [role |-> "user", parts |-> <<[text |-> <<"b">>]>>]>>

-----------------------------------------------------------------------------
(* Failures after the headers *)

\* What the handlers log when a failure reaches them
FailureLogs ==
    {"Error proxying OpenAI request:", "Error during OpenAI stream to client:",
     "Error proxying ElevenLabs TTS request:",
     "Error proxying Gemini image request:",
     "Error proxying Gemini chat request:"}

LastLog == IF log = <<>> THEN "" ELSE log[Len(log)]

\* This step handles a failure: a stream error or a catch block
FailureHandled == log' # log /\ log'[Len(log')] \in FailureLogs

\* C13: when the headers of the response have been committed, a step that
\* handles a failure leaves the status code, the content type and the body
\* written so far as they are, and ends the response.
C13_PostHeaderFailure ==
    [][(res.headersSent /\ FailureHandled) =>
            /\ res'.statusCode = res.statusCode
            /\ res'.contentType = res.contentType
            /\ res'.body = res.body
            /\ res'.ended]_vars

\* A stream that failed after its first chunk had been written
C13_Witness ==
    /\ pc = "done"
    /\ endpoint = "/openai/chat"
    /\ LastLog = "Error during OpenAI stream to client:"
    /\ res.body = <<"chunk">>
    /\ res.statusCode = 200
    /\ res.contentType = "text/event-stream"
    /\ res.ended

-----------------------------------------------------------------------------
(* The lifecycle of a request *)

AwaitingProvider ==
    pc \in {"await_openai_chat", "await_elevenlabs", "await_gemini_image",
            "await_gemini_chat"}

SuccessLogs ==
    {"OpenAI stream to client ended successfully.",
     "ElevenLabs audio response sent to client successfully."}

Logged(messages) == \E k \in 1..Len(log) : log[k] \in messages

\* The request failed: an error status was set, a failure was handled, or
\* the handler threw
Failed == res.statusCode >= 400 \/ Logged(FailureLogs) \/ pc = "rejected"

\* The request completed: the success path of its handler ran to its end
\* (the two Gemini handlers log nothing on success)
Succeeded ==
    \/ Logged(SuccessLogs)
    \/ /\ endpoint \in {"/gemini/image", "/gemini/chat"}
       /\ res.ended
       /\ res.statusCode = 200

\* The state of the request.  A buffered reply is read and answered in one
\* step of its handler, so BUFFERING is never the state between two steps.
Lifecycle ==
    CASE pc = "idle" -> "RECEIVED"
      [] pc = "await_moderation" -> "MODERATING"
      [] AwaitingProvider -> "DISPATCHED"
      [] pc = "streaming" -> "STREAMING"
      [] pc \in {"done", "rejected"} ->
            IF Failed THEN "FAILED" ELSE "COMPLETE"

Rank(state) ==
    CASE state = "RECEIVED" -> 1
      [] state = "MODERATING" -> 2
      [] state = "DISPATCHED" -> 3
      [] state \in {"STREAMING", "BUFFERING"} -> 4
      [] state \in {"COMPLETE", "FAILED"} -> 5

Terminal == Lifecycle \in {"COMPLETE", "FAILED"}

\* C14: a request never moves to an earlier state of RECEIVED, MODERATING,
\* DISPATCHED, STREAMING or BUFFERING, COMPLETE or FAILED; MODERATING is a
\* state of image requests only; nothing changes once the request is
\* COMPLETE or FAILED; a finished request has either completed or failed,
\* never both; the response is ended at most once.
C14_Lifecycle ==
    /\ [](/\ Lifecycle = "MODERATING" => endpoint = "/gemini/image"
          /\ ~(Succeeded /\ Failed)
          /\ pc = "done" => (Succeeded \/ Failed)
          /\ res.endCalls <= 1)
    /\ [][/\ Rank(Lifecycle') >= Rank(Lifecycle)
          /\ Terminal => (Lifecycle' = Lifecycle /\ res' = res)]_vars

\* An image request that was moderated, dispatched and answered
C14_Witness ==
    /\ endpoint = "/gemini/image"
    /\ moderationResponse.kind = "ok"
    /\ Len(calls) = 2
    /\ Lifecycle = "COMPLETE"
    /\ res.endCalls = 1

-----------------------------------------------------------------------------
(* Upstream calls of one request *)

Providers == {"openai", "elevenlabs", "gemini"}

CallsTo(provider) ==
    Cardinality({k \in 1..Len(calls) : calls[k].provider = provider})

IsModerationCall(call) == call.provider = "openai" /\ call.api = "moderation"

\* The call to the provider has come back with a failure
ProviderFailed(provider) ==
    \/ /\ provider = "openai"
       /\ endpoint = "/gemini/image"
       /\ NoVerdict
    \/ /\ Len(calls) > 0
       /\ provider = calls[Len(calls)].provider
       /\ upstream.kind \in {"error_response", "no_response"}

\* C15: over one request each provider is called at most once; an image
\* request makes at most one moderation call and one generation call, and
\* the moderation call has come back before the generation call is issued;
\* a chat or text-to-speech request makes at most one call; a provider
\* whose call failed is not called again.
C15_NoRetries ==
    /\ [](/\ \A provider \in Providers : CallsTo(provider) <= 1
          /\ endpoint # "/gemini/image" => Len(calls) <= 1
          /\ \A k \in 1..Len(calls) :
                IsImageCall(calls[k]) =>
                    /\ \A j \in 1..Len(calls) :
                            IsModerationCall(calls[j]) => j < k
                    /\ k > 1 => moderationResponse.kind # "none")
    /\ [][\A provider \in Providers :
            ProviderFailed(provider) => CallsTo(provider)' = CallsTo(provider)]_vars

\* An image request whose moderation call failed and whose generation call
\* failed after it
C15_Witness ==
    /\ endpoint = "/gemini/image"
    /\ pc = "done"
    /\ Len(calls) = 2
    /\ ProviderFailed("openai")
    /\ ProviderFailed("gemini")

-----------------------------------------------------------------------------
(* The moderation verdict and the generation call *)

\* evaluateAndOptimizeImagePrompt returned an object: its status is set
VerdictObtained ==
    /\ moderationResponse.kind = "ok"
    /\ moderationResponse.content = "json_object"
    /\ moderationResponse.parsed.status \notin {"", NoStatus}

ModerationSkipped == moderationResponse.kind = "none"

GenerationCalled == \E k \in 1..Len(calls) : IsImageCall(calls[k])

\* C16: an image request reaches the image-generation provider only when
\* the verdict's status is exactly 'safe' or there is no verdict (moderation
\* skipped, or failed); a verdict with any other status is answered 400
\* 'unsafe_prompt' and nothing is sent to the image-generation provider.
C16_OnlySafeGenerates ==
    endpoint = "/gemini/image" =>
        /\ GenerationCalled =>
                ModerationSkipped \/ NoVerdict \/ Verdict("safe")
        /\ (VerdictObtained /\ ~Verdict("safe")) =>
            /\ pc = "done"
            /\ res.ended
            /\ res.statusCode = 400
            /\ res.body[1].error = "unsafe_prompt"
            /\ ~GenerationCalled

\* A verdict whose status is neither 'safe' nor 'unsafe', rejected
C16_Witness ==
    /\ endpoint = "/gemini/image"
    /\ Verdict("maybe")
    /\ res.statusCode = 400
    /\ res.body[1].error = "unsafe_prompt"
    /\ Len(calls) = 1

-----------------------------------------------------------------------------
(* Every response ends *)

RequestReceived == endpoint # ""

\* C17: when every upstream call settles and every piped body ends or
\* fails, each request that was received eventually has its response ended.
C17_EventuallyEnded == RequestReceived ~> res.ended

====
